---- MODULE Spec2Model ----
(***************************************************************************)
(* MDPAgent.get_sessions (agentnet/agent/mdp_agent.py): the recurrent      *)
(* unroll of an agent against an environment and the time alignment of     *)
(* the recorded sequences.                                                 *)
(*                                                                         *)
(* A tensor is a record [ndim, val]; val is a nested sequence, outermost   *)
(* axis first.  Python's None is NoneVal.  An optional argument is a       *)
(* sequence of length 0 (None) or 1.                                       *)
(***************************************************************************)
EXTENDS Integers, Sequences, FiniteSets, TLC

\* ---- bounds of the model ------------------------------------------------
MaxLen == 5
MaxBatch == 2
MaxExtras == 2

\* the get_sessions invocations that may be in flight on one MDPAgent
Calls == {1, 2}

\* ---- tensors ------------------------------------------------------------
Tensor(nd, v) == [ndim |-> nd, val |-> v]

NoneVal == [ndim |-> 0 - 1, val |-> <<>>]

\* T.zeros([1, f]): one row, left to broadcasting
TZerosOneRow(b, f) == Tensor(2, [r \in 1..1 |-> [j \in 1..f |-> 0]])

\* T.zeros([b, f]) for a given b
TZeros(b, f) == Tensor(2, [r \in 1..b |-> [j \in 1..f |-> 0]])

\* T.stack(*xs): a new leading axis
TStack(xs) == Tensor(xs[1].ndim + 1, [t \in 1..Len(xs) |-> xs[t].val])

\* var.swapaxes(1,0)
Swapaxes(x) ==
    Tensor(x.ndim, [b \in 1..Len(x.val[1]) |-> [t \in 1..Len(x.val) |-> x.val[t][b]]])

\* ..utils.insert_dim(x, 1): a new axis of extent 1 after the batch axis
insert_dim(x) == Tensor(x.ndim + 1, [b \in 1..Len(x.val) |-> <<x.val[b]>>])

\* x[:, :] : nothing cropped
DropNone(x) == x

\* x[:, 1:] : the first position cropped
DropFirst(x) ==
    Tensor(x.ndim, [b \in 1..Len(x.val) |-> SubSeq(x.val[b], 2, Len(x.val[b]))])

\* x[:, :-1]
DropLast(x) ==
    Tensor(x.ndim, [b \in 1..Len(x.val) |-> SubSeq(x.val[b], 1, Len(x.val[b]) - 1)])

\* T.concatenate([y, x], axis=1)
ConcatSwapped(x, y) == Tensor(x.ndim, [b \in 1..Len(x.val) |-> y.val[b] \o x.val[b]])

\* T.concatenate([x, y], axis=1)
ConcatAxis1(x, y) == Tensor(x.ndim, [b \in 1..Len(x.val) |-> x.val[b] \o y.val[b]])

\* ---- the agent's network (memory, policy, resolver, tracked layers) -----
HiddenSize == 1

ExtraLayers == {"aux_hidden", "aux_scalar"}

\* lasagne.layers.get_output_shape(self.memory)[1:]
MemoryStateShape == <<HiddenSize>>

\* memory.default_input_map
default_input_map(last_state, observation) ==
    [prev_state_input |-> last_state, observation_input |-> observation]

\* self.input_map(last_memory_state, observation)
InputMap(name, last_state, observation) ==
    CASE name = "memory.default_input_map" -> default_input_map(last_state, observation)

\* the network evaluates row by row: its inputs need one batch extent
NetworkAccepts(inputs) ==
    Len(inputs.prev_state_input.val) = Len(inputs.observation_input.val)

NewHidden(inputs) ==
    [b \in 1..Len(inputs.observation_input.val) |->
        <<inputs.prev_state_input.val[b][1] + inputs.observation_input.val[b][1] + 1>>]

LayerOutput(layer, inputs) ==
    CASE layer = "memory" -> Tensor(2, NewHidden(inputs))
      [] layer = "policy" -> Tensor(2, inputs.observation_input.val)
      [] layer = "resolver" ->
            Tensor(1, [b \in 1..Len(inputs.observation_input.val) |->
                          inputs.observation_input.val[b][1]])
      [] layer = "aux_hidden" ->
            Tensor(2, [b \in 1..Len(inputs.observation_input.val) |->
                          <<2 * NewHidden(inputs)[b][1] + 100>>])
      [] layer = "aux_scalar" -> Tensor(0, NewHidden(inputs)[1][1] + 200)

\* lasagne.layers.get_output(layer_or_layers, inputs)
get_output(layers, inputs) == [j \in 1..Len(layers) |-> LayerOutput(layers[j], inputs)]

\* ---- MDPAgent -----------------------------------------------------------
MDPAgentInit(memory, policy, resolver, input_map) ==
    [memory |-> memory, policy |-> policy, resolver |-> resolver,
     input_map |-> IF input_map = "default" THEN "memory.default_input_map" ELSE input_map]

get_agent_reaction(agent, last_memory_state, observation, additional_outputs) ==
    LET outputs == get_output(<<agent.memory, agent.policy, agent.resolver>> \o additional_outputs,
                              InputMap(agent.input_map, last_memory_state, observation))
    IN  [hidden |-> outputs[1], policy |-> outputs[2], action |-> outputs[3],
         additional_outputs |-> SubSeq(outputs, 4, Len(outputs))]

\* ---- environments -------------------------------------------------------
\* twist: <<>> or <<k>>, the one tick at which the environment answers otherwise
Environments ==
    { [kind |-> "counter", state_size |-> 1, observation_size |-> 1, twist |-> <<>>],
      [kind |-> "driven",  state_size |-> 2, observation_size |-> 1, twist |-> <<>>] }

Twist(env, time_tick) == IF env.twist = <<time_tick>> THEN 1000 ELSE 0

EnvAccepts(env_state, action) == Len(env_state.val) = Len(action.val)

\* env.get_action_results(env_state, action, time_tick)
get_action_results(env, env_state, action, time_tick) ==
    IF env.kind = "counter"
    THEN [new_env_state |->
              Tensor(2, [b \in 1..Len(env_state.val) |->
                            <<env_state.val[b][1] + 1 + Twist(env, time_tick)>>]),
          new_observation |->
              Tensor(2, [b \in 1..Len(env_state.val) |->
                            <<env_state.val[b][1] + Twist(env, time_tick)>>])]
    ELSE [new_env_state |->
              Tensor(2, [b \in 1..Len(env_state.val) |->
                            <<env_state.val[b][1] + action.val[b] + 1 + Twist(env, time_tick),
                              10 * time_tick>>]),
          new_observation |->
              Tensor(2, [b \in 1..Len(env_state.val) |->
                            <<env_state.val[b][1] + 2 * action.val[b] + time_tick + 3
                                + Twist(env, time_tick)>>])]

\* ---- arguments of get_sessions ------------------------------------------
Zeros == [tag |-> "zeros", value |-> NoneVal]

Explicit(b, f, base) ==
    [tag |-> "explicit", value |-> Tensor(2, [r \in 1..b |-> [j \in 1..f |-> base + 10 * r + j]])]

InitialOptions(f, base) == {Zeros} \cup {Explicit(b, f, base) : b \in 1..MaxBatch}

RECURSIVE SeqsUpTo(_, _)
SeqsUpTo(S, n) ==
    IF n = 0 THEN {<<>>}
    ELSE LET shorter == SeqsUpTo(S, n - 1)
         IN  shorter \cup {Append(s, x) : s \in {q \in shorter : Len(q) = n - 1}, x \in S}

\* a capability that raises: <<>> (never) or <<op, tick>>
Faults(n) == {<<>>} \cup {<<op, k>> : op \in {"react", "step"}, k \in 0..(n - 1)}

\* some initial value is passed by the caller
SomeInitialGiven(a) ==
    "explicit" \in {a.initial_env_state.tag, a.initial_observation.tag, a.initial_hidden.tag}

Arguments ==
    UNION { UNION { [environment : {env},
                     session_length : {n},
                     batch_size : {<<>>} \cup {<<b>> : b \in 1..MaxBatch},
                     initial_env_state : InitialOptions(env.state_size, 300),
                     initial_observation : InitialOptions(env.observation_size, 400),
                     initial_hidden : InitialOptions(HiddenSize, 500),
                     additional_output_layers : SeqsUpTo(ExtraLayers, MaxExtras),
                     fault : Faults(n)] : n \in (0 - 1)..MaxLen } : env \in Environments }

NoArguments ==
    [environment |-> [kind |-> "none", state_size |-> 0, observation_size |-> 0, twist |-> <<>>],
     session_length |-> 0, batch_size |-> <<>>,
     initial_env_state |-> Zeros, initial_observation |-> Zeros, initial_hidden |-> Zeros,
     additional_output_layers |-> <<>>, fault |-> <<>>]

\* ---- state --------------------------------------------------------------
VARIABLES
    self,         \* the MDPAgent: attribute name -> value
    pc,           \* per call: position in get_sessions
    args,         \* per call: the arguments
    initial,      \* per call: initial_env_state, initial_observation, initial_hidden after defaulting
    i,            \* per call: unroll_scan's loop counter
    prev_vals,    \* per call: unroll_scan's prev_vals
    output,       \* per call: unroll_scan's output list
    reaction,     \* per call: step's hidden, policy, action, additional_outputs
    history,      \* per call: the local variable history
    result,       \* per call: the returned tuple
    error,        \* per call: the exception that left get_sessions
    reactions,    \* per call: every get_agent_reaction call, inputs and outputs
    transitions,  \* per call: every env.get_action_results call, inputs and outputs
    trace         \* per call: the capability calls in order

vars == <<self, pc, args, initial, i, prev_vals, output, reaction, history, result, error,
          reactions, transitions, trace>>

NoReaction == [hidden |-> NoneVal, policy |-> NoneVal, action |-> NoneVal,
               additional_outputs |-> <<>>]

NoInitial == [env_state |-> NoneVal, observation |-> NoneVal, hidden |-> NoneVal]

Init ==
    /\ self = MDPAgentInit("memory", "policy", "resolver", "default")
    /\ pc = [c \in Calls |-> "idle"]
    /\ args = [c \in Calls |-> NoArguments]
    /\ initial = [c \in Calls |-> NoInitial]
    /\ i = [c \in Calls |-> 0]
    /\ prev_vals = [c \in Calls |-> <<>>]
    /\ output = [c \in Calls |-> <<>>]
    /\ reaction = [c \in Calls |-> NoReaction]
    /\ history = [c \in Calls |-> <<>>]
    /\ result = [c \in Calls |-> <<>>]
    /\ error = [c \in Calls |-> "none"]
    /\ reactions = [c \in Calls |-> <<>>]
    /\ transitions = [c \in Calls |-> <<>>]
    /\ trace = [c \in Calls |-> <<>>]

\* ---- get_sessions: defaulting of the initial values ---------------------
\* batch_size demanded whatever the initial values are
ZerosRaisesAlways(a) == a.batch_size = <<>>

\* T.zeros([batch_size, ...]) needs a batch_size
ZerosRaises(a) ==
    /\ a.batch_size = <<>>
    /\ \/ a.initial_env_state.tag = "zeros"
       \/ a.initial_observation.tag = "zeros"
       \/ a.initial_hidden.tag = "zeros"

\* the zero state shaped by env.observation_size
InitialValuesObsSize(a) ==
    [env_state |-> IF a.initial_env_state.tag = "zeros"
                   THEN TZeros(a.batch_size[1], a.environment.observation_size)
                   ELSE a.initial_env_state.value,
     observation |-> IF a.initial_observation.tag = "zeros"
                     THEN TZeros(a.batch_size[1], a.environment.observation_size)
                     ELSE a.initial_observation.value,
     hidden |-> IF a.initial_hidden.tag = "zeros"
                THEN TZeros(a.batch_size[1], MemoryStateShape[1])
                ELSE a.initial_hidden.value]

InitialValues(a) ==
    [env_state |-> IF a.initial_env_state.tag = "zeros"
                   THEN TZeros(a.batch_size[1], a.environment.state_size)
                   ELSE a.initial_env_state.value,
     observation |-> IF a.initial_observation.tag = "zeros"
                     THEN TZeros(a.batch_size[1], a.environment.observation_size)
                     ELSE a.initial_observation.value,
     hidden |-> IF a.initial_hidden.tag = "zeros"
                THEN TZeros(a.batch_size[1], MemoryStateShape[1])
                ELSE a.initial_hidden.value]

\* outputs_info
OutputsInfo(init, additional_output_layers) ==
    <<init.env_state, init.observation, init.hidden, NoneVal, NoneVal>>
        \o [j \in 1..Len(additional_output_layers) |-> NoneVal]

\* one iteration too many
LoopPcOneMore(k, n_steps) == IF k <= n_steps THEN "react" ELSE "stack"

\* one iteration too few
LoopPcOneLess(k, n_steps) == IF k < n_steps - 1 THEN "react" ELSE "stack"

\* the body run before the count is tested
LoopPcDoWhile(k, n_steps) == IF k = 0 \/ k < n_steps THEN "react" ELSE "stack"

\* unroll_scan: for i in range(n_steps)
LoopPc(k, n_steps) == IF k < n_steps THEN "react" ELSE "stack"

\* the failed tick is run again
PcOnRaiseRetry(k, n_steps) == "react"

\* neither step, unroll_scan nor get_sessions has an except clause: an
\* exception of a capability at tick k leaves get_sessions
PcOnRaise(k, n_steps) == "raised"

\* get_sessions up to the call of unroll_scan
GetSessions(c, a) ==
    /\ pc[c] = "idle"
    /\ args' = [args EXCEPT ![c] = a]
    /\ IF ZerosRaises(a)
       THEN /\ pc' = [pc EXCEPT ![c] = "raised"]
            /\ error' = [error EXCEPT ![c] = "TypeError"]
            /\ UNCHANGED <<initial, prev_vals>>
       ELSE /\ initial' = [initial EXCEPT ![c] = InitialValues(a)]
            /\ prev_vals' = [prev_vals EXCEPT ![c] =
                                OutputsInfo(InitialValues(a), a.additional_output_layers)]
            /\ pc' = [pc EXCEPT ![c] = LoopPc(0, a.session_length)]
            /\ UNCHANGED error
    /\ UNCHANGED <<self, i, output, reaction, history, result, reactions, transitions, trace>>

\* ---- step: the agent's reaction -----------------------------------------
\* what get_agent_reaction hands back when the network's evaluation yields,
\* at the tick of the fault, one output more ("surplus") or one output fewer
\* ("short") than the layers it was asked for: outputs[3:] is whatever
\* follows the first three
Yielded(r, fault, tick) ==
    IF fault = <<"surplus", tick>>
    THEN [r EXCEPT !.additional_outputs = Append(@, r.hidden)]
    ELSE IF fault = <<"short", tick>>
    THEN [r EXCEPT !.additional_outputs = SubSeq(@, 1, Len(@) - 1)]
    ELSE r

\* step_input = [s[i] for s in sequences] + prev_vals
StepEnvState(pv) == pv[1]

\* the environment state handed to the agent as its observation
StepObservationState(pv) == pv[1]

StepObservation(pv) == pv[2]
StepLastHidden(pv) == pv[3]

React(c) ==
    /\ pc[c] = "react"
    /\ LET observation == StepObservation(prev_vals[c])
           last_hidden == StepLastHidden(prev_vals[c])
           inputs == InputMap(self.input_map, last_hidden, observation)
       IN  IF args[c].fault = <<"react", i[c]>> \/ ~NetworkAccepts(inputs)
           THEN /\ pc' = [pc EXCEPT ![c] = PcOnRaise(i[c], args[c].session_length)]
                /\ error' = [error EXCEPT ![c] = "AgentError"]
                /\ UNCHANGED <<reaction, reactions>>
           ELSE LET r == Yielded(get_agent_reaction(self, last_hidden, observation,
                                                    args[c].additional_output_layers),
                                 args[c].fault, i[c])
                IN  /\ reaction' = [reaction EXCEPT ![c] = r]
                    /\ reactions' = [reactions EXCEPT ![c] =
                           Append(@, [last_hidden |-> last_hidden,
                                      observation |-> observation, out |-> r])]
                    /\ pc' = [pc EXCEPT ![c] = "env"]
                    /\ UNCHANGED error
    /\ trace' = [trace EXCEPT ![c] = Append(@, <<"react", i[c]>>)]
    /\ UNCHANGED <<self, args, initial, i, prev_vals, output, history, result, transitions>>

\* ---- step: the environment's transition ---------------------------------
\* env.get_action_results raises ("step"), or returns what
\* new_env_state,new_observation = ... cannot unpack: a sequence of other than
\* two values ("arity") or one bare value that is no sequence ("bare")
StepRaises(fault, tick) == fault \in {<<"step", tick>>, <<"arity", tick>>, <<"bare", tick>>}

\* the exception of the call, or of the unpacking: ValueError for a sequence
\* of the wrong length, TypeError for a value that cannot be iterated
StepError(fault, tick) ==
    IF fault = <<"arity", tick>> THEN "ValueError"
    ELSE IF fault = <<"bare", tick>> THEN "TypeError"
    ELSE "EnvironmentError"

\* [new_env_state,new_observation,hidden,policy,action]+additional_outputs
StepOut(res, r) ==
    <<res.new_env_state, res.new_observation, r.hidden, r.policy, r.action>>
        \o r.additional_outputs

EnvStep(c) ==
    /\ pc[c] = "env"
    /\ LET env_state == StepEnvState(prev_vals[c])
           action == reaction[c].action
           time_tick == i[c]
       IN  IF StepRaises(args[c].fault, time_tick) \/ ~EnvAccepts(env_state, action)
           THEN /\ pc' = [pc EXCEPT ![c] = PcOnRaise(i[c], args[c].session_length)]
                /\ error' = [error EXCEPT ![c] = StepError(args[c].fault, time_tick)]
                /\ UNCHANGED <<i, prev_vals, output, transitions>>
           ELSE LET res == get_action_results(args[c].environment, env_state, action, time_tick)
                    out == StepOut(res, reaction[c])
                IN  /\ output' = [output EXCEPT ![c] = Append(@, out)]
                    /\ prev_vals' = [prev_vals EXCEPT ![c] = out]
                    /\ i' = [i EXCEPT ![c] = @ + 1]
                    /\ transitions' = [transitions EXCEPT ![c] =
                           Append(@, [env_state |-> env_state, action |-> action,
                                      time_tick |-> time_tick, out |-> res])]
                    /\ pc' = [pc EXCEPT ![c] = LoopPc(i[c] + 1, args[c].session_length)]
                    /\ UNCHANGED error
    /\ trace' = [trace EXCEPT ![c] = Append(@, <<"step", i[c]>>)]
    /\ UNCHANGED <<self, args, initial, reaction, history, result, reactions>>

\* ---- unroll_scan's result and self.history ------------------------------
\* output_scan: one stacked tensor per position of the step's result
\* for i in range(len(output[0])): map(lambda x: x[i], output) -- a tick
\* that recorded fewer values than tick 0 has no x[i]
Ragged(out) == \E t \in 1..Len(out) : Len(out[t]) < Len(out[1])

OutputScan(out) ==
    [j \in 1..Len(out[1]) |-> TStack([t \in 1..Len(out) |-> out[t][j]])]

\* an attribute that is set keeps its first value
SetAttrOnce(obj, name, value) ==
    [a \in (DOMAIN obj) \cup {name} |-> IF a \in DOMAIN obj THEN obj[a] ELSE value]

\* self.<name> = value
SetAttr(obj, name, value) ==
    [a \in (DOMAIN obj) \cup {name} |-> IF a = name THEN value ELSE obj[a]]

StoreHistory(c) ==
    /\ pc[c] = "stack"
    /\ IF Len(output[c]) = 0 \/ Ragged(output[c])
       THEN /\ pc' = [pc EXCEPT ![c] = "raised"]
            /\ error' = [error EXCEPT ![c] = "IndexError"]
            /\ UNCHANGED <<self, history>>
       ELSE /\ history' = [history EXCEPT ![c] = OutputScan(output[c])]
            /\ self' = SetAttr(self, "history", OutputScan(output[c]))
            /\ pc' = [pc EXCEPT ![c] = "stored"]
            /\ UNCHANGED error
    /\ UNCHANGED <<args, initial, i, prev_vals, output, reaction, result,
                   reactions, transitions, trace>>

\* ---- get_sessions after the unroll --------------------------------------
\* the agent's attribute read back in place of the local variable
SelfHistory(c) == self["history"]

\* the history that the transposition and the alignment read: the local variable
LocalHistory(c) == history[c]

\* only tensors of rank above 2 transposed
BatchMajorRank3(h) == [j \in 1..Len(h) |-> IF h[j].ndim > 2 THEN Swapaxes(h[j]) ELSE h[j]]

\* from [time,batch,...] to [batch,time,...]
BatchMajor(h) == [j \in 1..Len(h) |-> IF h[j].ndim > 1 THEN Swapaxes(h[j]) ELSE h[j]]

\* the initial value put first and nothing cropped
AlignUncropped(initial_value, seq) == ConcatAxis1(insert_dim(initial_value), seq)

\* the recorded sequence as unroll_scan left it
AlignNot(initial_value, seq) == seq

\* add first env turn, crop to session length
Align(initial_value, seq) == ConcatAxis1(insert_dim(initial_value), DropLast(seq))

\* the hidden sequence shifted like the state and the observation
ReturnedHiddenShifted(init, h) ==
    LET hist == BatchMajor(h)
    IN  <<Align(init.env_state, hist[1]), Align(init.observation, hist[2]),
          Align(init.hidden, hist[3]), hist[4], hist[5]>> \o SubSeq(hist, 6, Len(hist))

\* the tracked sequences taken from history[4:]
ReturnedFrom4(init, h) ==
    LET hist == BatchMajor(h)
    IN  <<Align(init.env_state, hist[1]), Align(init.observation, hist[2]),
          hist[3], hist[4], hist[5]>> \o SubSeq(hist, 5, Len(hist))

Returned(init, h) ==
    LET hist == BatchMajor(h)
    IN  <<Align(init.env_state, hist[1]), Align(init.observation, hist[2]),
          hist[3], hist[4], hist[5]>> \o SubSeq(hist, 6, Len(hist))

Return(c) ==
    /\ pc[c] = "stored"
    /\ result' = [result EXCEPT ![c] = Returned(initial[c], LocalHistory(c))]
    /\ pc' = [pc EXCEPT ![c] = "returned"]
    /\ UNCHANGED <<self, args, initial, i, prev_vals, output, reaction, history, error,
                   reactions, transitions, trace>>

\* ---- specifications -----------------------------------------------------
\* one call, call 1, on a freshly constructed agent
FirstCall ==
    /\ \A d \in Calls : pc[d] = "idle"
    /\ \E a \in Arguments : GetSessions(1, a)

Next ==
    \/ FirstCall
    \/ \E c \in Calls : React(c) \/ EnvStep(c) \/ StoreHistory(c) \/ Return(c)

Spec == Init /\ [][Next]_vars

\* one call that runs to its end: get_sessions is a synchronous call, a call
\* that can take a step takes it
FairArguments ==
    { a \in Arguments :
        /\ a.batch_size = <<MaxBatch>>
        /\ a.initial_env_state.tag = "zeros"
        /\ a.initial_hidden.tag = "zeros"
        /\ a.initial_observation \in {Zeros, Explicit(MaxBatch, a.environment.observation_size, 400)}
        /\ Len(a.additional_output_layers) <= 1 }

FairCall ==
    /\ \A d \in Calls : pc[d] = "idle"
    /\ \E a \in FairArguments : GetSessions(1, a)

NextFair ==
    \/ FairCall
    \/ \E c \in Calls : React(c) \/ EnvStep(c) \/ StoreHistory(c) \/ Return(c)

SpecFair == Init /\ [][NextFair]_vars /\ WF_vars(NextFair)

\* two calls on one agent, interleaved at every step
ConcLen == 2

ConcArguments ==
    { a \in Arguments :
        /\ a.session_length \in 1..ConcLen
        /\ a.batch_size = <<MaxBatch>>
        /\ a.initial_env_state.tag = "zeros"
        /\ a.initial_hidden.tag = "zeros"
        /\ a.initial_observation \in {Zeros, Explicit(MaxBatch, a.environment.observation_size, 400)}
        /\ Len(a.additional_output_layers) <= 1
        /\ a.fault \in {<<>>, <<"step", 0>>} }

AnyCall(c) == \E a \in ConcArguments : GetSessions(c, a)

NextConc ==
    \E c \in Calls : AnyCall(c) \/ React(c) \/ EnvStep(c) \/ StoreHistory(c) \/ Return(c)

SpecConc == Init /\ [][NextConc]_vars

\* two calls on one agent, the second made after the first returned or raised
SeqLen == 2

SeqArguments ==
    { a \in Arguments :
        /\ a.session_length \in 0..SeqLen
        /\ a.batch_size = <<MaxBatch>>
        /\ ~SomeInitialGiven(a)
        /\ Len(a.additional_output_layers) <= 1 }

SeqCall ==
    \E c \in Calls :
        /\ \A d \in Calls : d < c => pc[d] \in {"returned", "raised"}
        /\ \A d \in Calls : d >= c => pc[d] = "idle"
        /\ \E a \in SeqArguments : GetSessions(c, a)

NextSeq ==
    \/ SeqCall
    \/ \E c \in Calls : React(c) \/ EnvStep(c) \/ StoreHistory(c) \/ Return(c)

SpecSeq == Init /\ [][NextSeq]_vars

\* one call whose capability breaks its contract at one tick: the network
\* yields one output more or fewer than asked for, or the environment other
\* than a pair
ContractLen == 3

Deviations(a) ==
    {<<op, k>> : op \in {"surplus", "arity", "bare"} \cup
                        (IF Len(a.additional_output_layers) >= 1 THEN {"short"} ELSE {}),
                 k \in 0..(a.session_length - 1)}

ContractArguments ==
    UNION { {[a EXCEPT !.fault = f] : f \in Deviations(a)} :
            a \in {x \in Arguments :
                      /\ x.session_length \in 1..ContractLen
                      /\ x.batch_size = <<MaxBatch>>
                      /\ ~SomeInitialGiven(x)
                      /\ x.fault = <<>>} }

ContractCall ==
    /\ \A d \in Calls : pc[d] = "idle"
    /\ \E a \in ContractArguments : GetSessions(1, a)

NextContract ==
    \/ ContractCall
    \/ \E c \in Calls : React(c) \/ EnvStep(c) \/ StoreHistory(c) \/ Return(c)

SpecContract == Init /\ [][NextContract]_vars

\* ---- the rollout of one call run alone ----------------------------------
\* unroll_scan applied to step, from tick k with the carried values pv
RECURSIVE UnrollScan(_, _, _, _, _)
UnrollScan(agent, a, k, pv, out) ==
    IF k >= a.session_length THEN [error |-> "none", output |-> out]
    ELSE IF \/ a.fault = <<"react", k>>
            \/ ~NetworkAccepts(InputMap(agent.input_map, StepLastHidden(pv), StepObservation(pv)))
    THEN [error |-> "AgentError", output |-> out]
    ELSE LET r == Yielded(get_agent_reaction(agent, StepLastHidden(pv), StepObservation(pv),
                                             a.additional_output_layers), a.fault, k)
         IN  IF StepRaises(a.fault, k) \/ ~EnvAccepts(StepEnvState(pv), r.action)
             THEN [error |-> StepError(a.fault, k), output |-> out]
             ELSE LET o == StepOut(get_action_results(a.environment, StepEnvState(pv),
                                                      r.action, k), r)
                  IN  UnrollScan(agent, a, k + 1, o, Append(out, o))

\* get_sessions(a) on agent, with no other call in flight
Alone(agent, a) ==
    IF ZerosRaises(a) THEN [error |-> "TypeError", result |-> <<>>]
    ELSE LET u == UnrollScan(agent, a, 0,
                             OutputsInfo(InitialValues(a), a.additional_output_layers), <<>>)
         IN  IF u.error # "none" THEN [error |-> u.error, result |-> <<>>]
             ELSE IF Len(u.output) = 0 \/ Ragged(u.output)
             THEN [error |-> "IndexError", result |-> <<>>]
             ELSE [error |-> "none",
                   result |-> Returned(InitialValues(a), OutputScan(u.output))]

\* ---- reading a returned trajectory --------------------------------------
state_seq(c) == result[c][1]
observation_seq(c) == result[c][2]
hidden_seq(c) == result[c][3]
policy_seq(c) == result[c][4]
action_seq(c) == result[c][5]

Done(c) == pc[c] = "returned"

\* the extent of x along the time axis: axis 1 of a batch-major sequence,
\* axis 0 of a sequence that has no batch axis
TimeExtents(x) == IF x.ndim > 1 THEN {Len(x.val[b]) : b \in 1..Len(x.val)} ELSE {Len(x.val)}

\* the batch extent of a sequence that has a batch axis
BatchExtent(x) == Len(x.val)

AllZero(t, b, f) ==
    /\ t.ndim = 2
    /\ Len(t.val) = b
    /\ \A r \in 1..b : Len(t.val[r]) = f /\ \A j \in 1..f : t.val[r][j] = 0

\* ---- C1 -----------------------------------------------------------------
\* C1: after a returned call of session_length N >= 1, at every index i the
\* row observation_seq[b][i] is the observation handed to the reaction that
\* produced hidden_seq[b][i], policy_seq[b][i] and action_seq[b][i], and
\* state_seq[b][i] is the state handed to the environment step that consumed
\* action_seq[b][i].
C1_Synchronized ==
    \A c \in Calls : Done(c) =>
        /\ Len(reactions[c]) = args[c].session_length
        /\ Len(transitions[c]) = args[c].session_length
        /\ \A t \in 1..args[c].session_length :
             LET rc == reactions[c][t]
                 tr == transitions[c][t]
             IN  /\ BatchExtent(observation_seq(c)) = Len(rc.observation.val)
                 /\ \A b \in 1..Len(rc.observation.val) :
                      /\ observation_seq(c).val[b][t] = rc.observation.val[b]
                      /\ hidden_seq(c).val[b][t] = rc.out.hidden.val[b]
                      /\ policy_seq(c).val[b][t] = rc.out.policy.val[b]
                      /\ action_seq(c).val[b][t] = rc.out.action.val[b]
                      /\ action_seq(c).val[b][t] = tr.action.val[b]
                      /\ state_seq(c).val[b][t] = tr.env_state.val[b]

C1_Witness ==
    \E c \in Calls :
        /\ Done(c)
        /\ args[c].session_length >= 3
        /\ args[c].environment.kind = "driven"
        /\ args[c].initial_observation.tag = "explicit"
        /\ observation_seq(c).val[1][2] # observation_seq(c).val[1][3]

\* ---- C2 -----------------------------------------------------------------
\* C2: a returned call of session_length N >= 1 with k tracked layers returns
\* 5 + k sequences, each of extent N along its time axis, also for N = 1.
C2_Lengths ==
    \A c \in Calls : Done(c) /\ args[c].session_length >= 1 =>
        /\ Len(result[c]) = 5 + Len(args[c].additional_output_layers)
        /\ \A j \in 1..Len(result[c]) : TimeExtents(result[c][j]) = {args[c].session_length}

C2_Witness ==
    \E c \in Calls :
        /\ Done(c)
        /\ args[c].session_length = 1
        /\ args[c].additional_output_layers = <<"aux_scalar", "aux_hidden">>
        /\ BatchExtent(state_seq(c)) = MaxBatch

\* ---- C3 -----------------------------------------------------------------
\* C3: when a capability raises at tick k, the call raises that error, returns
\* nothing, makes no capability call for a tick after k, and makes no
\* capability call twice.
C3_FailurePropagates ==
    \A c \in Calls :
        LET f == args[c].fault
            tr == trace[c]
        IN  f # <<>> =>
              /\ pc[c] \notin {"stack", "stored", "returned"}
              /\ result[c] = <<>>
              /\ \A e \in 1..Len(tr) : tr[e][2] <= f[2]
              /\ \A e \in 1..Len(tr) : tr[e][2] = f[2] /\ f[1] = "react" => tr[e][1] = "react"
              /\ \A e1, e2 \in 1..Len(tr) : tr[e1] = tr[e2] => e1 = e2
              /\ (Len(tr) > 0 /\ tr[Len(tr)] = f) =>
                    /\ pc[c] = "raised"
                    /\ error[c] = (IF f[1] = "react" THEN "AgentError" ELSE "EnvironmentError")

C3_Witness ==
    \E c \in Calls :
        /\ pc[c] = "raised"
        /\ args[c].session_length = MaxLen
        /\ args[c].fault = <<"step", 2>>
        /\ trace[c] = <<<<"react", 0>>, <<"step", 0>>, <<"react", 1>>, <<"step", 1>>,
                        <<"react", 2>>, <<"step", 2>>>>
        /\ error[c] = "EnvironmentError"

\* ---- C4 -----------------------------------------------------------------
Started(c) == pc[c] # "idle"

SomeZeros(a) ==
    "zeros" \in {a.initial_env_state.tag, a.initial_observation.tag, a.initial_hidden.tag}

\* the batch extent the explicit initial values share, 0 when they do not
ExplicitExtent(a) ==
    IF /\ ~SomeZeros(a)
       /\ Len(a.initial_env_state.value.val) = Len(a.initial_hidden.value.val)
       /\ Len(a.initial_observation.value.val) = Len(a.initial_hidden.value.val)
    THEN Len(a.initial_hidden.value.val)
    ELSE 0

\* every returned sequence that has a batch axis has batch extent n
BatchExtents(c, n) == \A j \in 1..Len(result[c]) : result[c][j].ndim > 1 => BatchExtent(result[c][j]) = n

\* C4: without batch_size, a call that leaves an initial value at 'zeros'
\* fails before any tick; a call whose three initial values are explicit does
\* not need batch_size: it runs, and what it returns has the batch extent of
\* the initial values.
C4_BatchSizeResolution ==
    \A c \in Calls : Started(c) /\ args[c].batch_size = <<>> =>
        /\ SomeZeros(args[c]) =>
              /\ pc[c] = "raised"
              /\ error[c] = "TypeError"
              /\ trace[c] = <<>>
              /\ result[c] = <<>>
        /\ ~SomeZeros(args[c]) =>
              /\ error[c] # "TypeError"
              /\ (ExplicitExtent(args[c]) > 0 /\ args[c].fault = <<>>
                    /\ args[c].session_length >= 1) => pc[c] # "raised"
              /\ Done(c) => BatchExtents(c, ExplicitExtent(args[c]))

C4_Witness ==
    \E c \in Calls :
        /\ Done(c)
        /\ args[c].batch_size = <<>>
        /\ ~SomeZeros(args[c])
        /\ BatchExtent(action_seq(c)) = MaxBatch

\* ---- C5 -----------------------------------------------------------------
\* C5 as claimed: an explicit initial_hidden alone, batch_size omitted, the
\* other initial values left at 'zeros': the call completes without error.
C5_HiddenAloneSuffices ==
    \A c \in Calls :
        ( /\ Started(c)
          /\ args[c].batch_size = <<>>
          /\ args[c].initial_hidden.tag = "explicit"
          /\ args[c].initial_env_state.tag = "zeros"
          /\ args[c].initial_observation.tag = "zeros"
          /\ args[c].fault = <<>>
          /\ args[c].session_length >= 1 ) => pc[c] # "raised"

\* C5: with batch_size omitted and initial_hidden, initial_env_state and
\* initial_observation all explicit of batch extent B, a call whose
\* capabilities do not raise completes, and every returned sequence that has a
\* batch axis has batch extent B.
C5_ExplicitInference ==
    \A c \in Calls :
        ( /\ Started(c)
          /\ args[c].batch_size = <<>>
          /\ args[c].initial_hidden.tag = "explicit"
          /\ ExplicitExtent(args[c]) > 0
          /\ args[c].fault = <<>>
          /\ args[c].session_length >= 1 ) =>
            /\ error[c] = "none"
            /\ Done(c) =>
                 /\ BatchExtents(c, Len(args[c].initial_hidden.value.val))
                 /\ \A j \in 1..5 : result[c][j].ndim > 1

C5_Witness ==
    \E c \in Calls :
        /\ Done(c)
        /\ args[c].batch_size = <<>>
        /\ ExplicitExtent(args[c]) = MaxBatch
        /\ args[c].session_length = 1
        /\ Len(args[c].additional_output_layers) = MaxExtras

\* ---- C6 -----------------------------------------------------------------
\* C6: with the three initial values left at 'zeros' and batch_size B, the
\* first reaction is handed an all-zero hidden state and an all-zero
\* observation, and position 0 of state_seq and of observation_seq is all-zero
\* with batch extent B and the environment's declared feature extent.
C6_ZeroFill ==
    \A c \in Calls :
        ( /\ Started(c)
          /\ args[c].batch_size # <<>>
          /\ args[c].initial_env_state.tag = "zeros"
          /\ args[c].initial_observation.tag = "zeros"
          /\ args[c].initial_hidden.tag = "zeros" ) =>
            LET B == args[c].batch_size[1]
                env == args[c].environment
            IN  /\ Len(reactions[c]) >= 1 =>
                     /\ AllZero(reactions[c][1].last_hidden, B, HiddenSize)
                     /\ AllZero(reactions[c][1].observation, B, env.observation_size)
                /\ Done(c) =>
                     /\ BatchExtent(state_seq(c)) = B
                     /\ BatchExtent(observation_seq(c)) = B
                     /\ \A b \in 1..B :
                          /\ state_seq(c).val[b][1] = [j \in 1..env.state_size |-> 0]
                          /\ observation_seq(c).val[b][1] = [j \in 1..env.observation_size |-> 0]

C6_Witness ==
    \E c \in Calls :
        /\ Done(c)
        /\ args[c].batch_size = <<MaxBatch>>
        /\ ~ "explicit" \in {args[c].initial_env_state.tag, args[c].initial_observation.tag,
                             args[c].initial_hidden.tag}
        /\ args[c].environment.kind = "driven"
        /\ args[c].session_length >= 2
        /\ state_seq(c).val[MaxBatch][2] # state_seq(c).val[MaxBatch][1]

\* ---- C7 -----------------------------------------------------------------
\* C7: a returned call that tracks k layers returns 5 + k sequences; the j-th
\* trailing sequence holds at position t what the reaction of tick t computed
\* for the j-th requested layer; the five core sequences are those of the
\* same call with nothing tracked.
C7_ExtrasPassThrough ==
    \A c \in Calls : Done(c) =>
        LET a == args[c]
            k == Len(a.additional_output_layers)
        IN  /\ Len(result[c]) = 5 + k
            /\ \A j \in 1..k : \A t \in 1..a.session_length :
                 LET rc == reactions[c][t]
                     x == rc.out.additional_outputs[j]
                     seq == result[c][5 + j]
                 IN  /\ x = LayerOutput(a.additional_output_layers[j],
                                        InputMap(self.input_map, rc.last_hidden, rc.observation))
                     /\ IF seq.ndim > 1
                        THEN \A b \in 1..Len(x.val) : seq.val[b][t] = x.val[b]
                        ELSE seq.val[t] = x.val
            /\ SubSeq(result[c], 1, 5) =
                 Alone(MDPAgentInit("memory", "policy", "resolver", "default"),
                       [a EXCEPT !.additional_output_layers = <<>>]).result

C7_Witness ==
    \E c \in Calls :
        /\ Done(c)
        /\ args[c].additional_output_layers = <<"aux_scalar", "aux_hidden">>
        /\ args[c].session_length >= 2
        /\ result[c][6].ndim = 1
        /\ result[c][7].ndim = 3
        /\ result[c][7].val[1][1] # result[c][7].val[1][2]

\* ---- C8 -----------------------------------------------------------------
\* C8: session_length 5, batch_size 2, zero initial values, the agent whose
\* action is the first element of its observation, the environment whose
\* observation counts 0, 1, 2, ... : observation_seq is 0, 0, 1, 2, 3 in both
\* batch rows.
C8_Scenario ==
    \A c \in Calls :
        ( /\ Done(c)
          /\ args[c].session_length = 5
          /\ args[c].batch_size = <<2>>
          /\ args[c].initial_env_state = Zeros
          /\ args[c].initial_observation = Zeros
          /\ args[c].initial_hidden = Zeros
          /\ args[c].environment.kind = "counter" ) =>
            observation_seq(c).val = << <<<<0>>, <<0>>, <<1>>, <<2>>, <<3>>>>,
                                        <<<<0>>, <<0>>, <<1>>, <<2>>, <<3>>>> >>

C8_Witness ==
    \E c \in Calls :
        /\ Done(c)
        /\ args[c].session_length = 5
        /\ args[c].batch_size = <<2>>
        /\ args[c].initial_env_state = Zeros
        /\ args[c].initial_observation = Zeros
        /\ args[c].initial_hidden = Zeros
        /\ args[c].environment.kind = "counter"
        /\ action_seq(c).val = << <<0, 0, 1, 2, 3>>, <<0, 0, 1, 2, 3>> >>

\* ---- C9 -----------------------------------------------------------------
\* C9: a call leaves every attribute of the agent as it was: once the call has
\* returned or raised, the agent equals the agent as constructed.
C9_EngineUnchanged ==
    \A c \in Calls :
        pc[c] \in {"returned", "raised"} =>
            self = MDPAgentInit("memory", "policy", "resolver", "default")

\* ---- C10 ----------------------------------------------------------------
\* C10: however two calls on one agent interleave, each returns the trajectory,
\* or raises the error, of the same call run alone.
C10_Reentrant ==
    \A c \in Calls :
        LET alone == Alone(MDPAgentInit("memory", "policy", "resolver", "default"), args[c])
        IN  /\ Done(c) => alone.error = "none" /\ result[c] = alone.result
            /\ pc[c] = "raised" => error[c] = alone.error /\ result[c] = <<>>

\* call 2 stored its history and returned while call 1 was between storing its
\* own, different history and returning
C10_Witness ==
    /\ pc[1] = "stored"
    /\ Done(2)
    /\ "history" \in DOMAIN self
    /\ args[1].session_length # args[2].session_length
    /\ self["history"] = history[2]
    /\ hidden_seq(2).val[1] # Swapaxes(history[1][3]).val[1]

\* ---- C11 ----------------------------------------------------------------
\* the batch extent a call resolves to: batch_size where a zero tensor is
\* built from it, the extent of the explicit initial values where all three
\* are explicit
Resolved(a) == IF SomeZeros(a) THEN a.batch_size[1] ELSE Len(a.initial_hidden.value.val)

\* the values of one tick that have a batch axis
Batched(vals) == {j \in 1..Len(vals) : vals[j].ndim >= 1}

\* C11: every returned sequence that has a batch axis has the resolved batch
\* extent, and so have the initial values and every value recorded at a tick.
C11_BatchInvariant ==
    \A c \in Calls :
        /\ Len(output[c]) >= 1 =>
             /\ Len(initial[c].env_state.val) = Resolved(args[c])
             /\ Len(initial[c].observation.val) = Resolved(args[c])
             /\ Len(initial[c].hidden.val) = Resolved(args[c])
             /\ \A t \in 1..Len(output[c]) : \A j \in Batched(output[c][t]) :
                  Len(output[c][t][j].val) = Resolved(args[c])
        /\ Done(c) =>
             /\ BatchExtents(c, Resolved(args[c]))
             /\ \A j \in 1..5 : result[c][j].ndim > 1
             /\ \A j \in 1..Len(result[c]) : result[c][j].ndim > 1 =>
                  \A b \in 1..Resolved(args[c]) : Len(result[c][j].val[b]) = args[c].session_length

C11_Witness ==
    \E c \in Calls :
        /\ Done(c)
        /\ args[c].batch_size = <<MaxBatch>>
        /\ args[c].initial_observation.tag = "explicit"
        /\ args[c].initial_hidden.tag = "zeros"
        /\ args[c].additional_output_layers = <<"aux_hidden">>
        /\ args[c].session_length >= 2
        /\ BatchExtent(result[c][6]) = MaxBatch

\* ---- C12 ----------------------------------------------------------------
\* the first n capability calls in the order of the protocol
Protocol(n) == [e \in 1..n |-> <<IF e % 2 = 1 THEN "react" ELSE "step", (e - 1) \div 2>>]

\* C12: the capability calls of a call are react(0), step(0), react(1),
\* step(1), ... in this order, each once; a returned call of session_length N
\* made exactly the 2N calls up to step(N-1); the step of tick t is handed the
\* action that the reaction of tick t produced.
C12_CallProtocol ==
    \A c \in Calls :
        /\ trace[c] = Protocol(Len(trace[c]))
        /\ Done(c) => Len(trace[c]) = 2 * args[c].session_length
        /\ Len(transitions[c]) <= Len(reactions[c])
        /\ \A t \in 1..Len(transitions[c]) :
             /\ transitions[c][t].action = reactions[c][t].out.action
             /\ transitions[c][t].time_tick = t - 1

C12_Witness ==
    \E c \in Calls :
        /\ Done(c)
        /\ args[c].session_length = 3
        /\ trace[c] = <<<<"react", 0>>, <<"step", 0>>, <<"react", 1>>, <<"step", 1>>,
                        <<"react", 2>>, <<"step", 2>>>>
        /\ transitions[c][3].action # transitions[c][2].action

\* ---- C13 ----------------------------------------------------------------
\* C13: the reaction of tick 0 is handed the initial hidden state and the
\* initial observation and the step of tick 0 the initial environment state;
\* at a later tick t the reaction is handed the hidden state returned by the
\* reaction of tick t-1 and the observation returned by the step of tick t-1,
\* the step the state returned by the step of tick t-1; the step of tick t is
\* handed the time index t and the action of the reaction of tick t.
C13_CarriedState ==
    \A c \in Calls :
        /\ \A t \in 1..Len(reactions[c]) :
             /\ reactions[c][t].last_hidden =
                  (IF t = 1 THEN initial[c].hidden ELSE reactions[c][t - 1].out.hidden)
             /\ reactions[c][t].observation =
                  (IF t = 1 THEN initial[c].observation
                   ELSE transitions[c][t - 1].out.new_observation)
        /\ \A t \in 1..Len(transitions[c]) :
             /\ transitions[c][t].action = reactions[c][t].out.action
             /\ transitions[c][t].env_state =
                  (IF t = 1 THEN initial[c].env_state
                   ELSE transitions[c][t - 1].out.new_env_state)
             /\ transitions[c][t].time_tick = t - 1
        /\ Len(reactions[c]) >= 1 =>
             /\ args[c].initial_hidden.tag = "explicit" =>
                  initial[c].hidden = args[c].initial_hidden.value
             /\ args[c].initial_observation.tag = "explicit" =>
                  initial[c].observation = args[c].initial_observation.value
             /\ args[c].initial_env_state.tag = "explicit" =>
                  initial[c].env_state = args[c].initial_env_state.value

C13_Witness ==
    \E c \in Calls :
        /\ Len(transitions[c]) = 3
        /\ args[c].environment.kind = "driven"
        /\ args[c].initial_hidden.tag = "explicit"
        /\ reactions[c][3].last_hidden # reactions[c][2].last_hidden
        /\ reactions[c][3].observation # reactions[c][2].observation
        /\ reactions[c][3].observation # reactions[c][2].out.policy
        /\ transitions[c][3].time_tick = 2

\* ---- C14 ----------------------------------------------------------------
\* C14: with raw[t] the values recorded at tick t, state_seq is the initial
\* state followed by raw states 0 .. N-2, observation_seq the initial
\* observation followed by raw observations 0 .. N-2, and hidden_seq,
\* policy_seq, action_seq are the raw sequences position by position.
C14_Realignment ==
    \A c \in Calls : Done(c) =>
        LET N == args[c].session_length
            raw == output[c]
        IN  /\ Len(raw) = N
            /\ \A b \in 1..Len(initial[c].hidden.val) :
                 /\ state_seq(c).val[b] =
                      [t \in 1..N |-> IF t = 1 THEN initial[c].env_state.val[b]
                                      ELSE raw[t - 1][1].val[b]]
                 /\ observation_seq(c).val[b] =
                      [t \in 1..N |-> IF t = 1 THEN initial[c].observation.val[b]
                                      ELSE raw[t - 1][2].val[b]]
                 /\ hidden_seq(c).val[b] = [t \in 1..N |-> raw[t][3].val[b]]
                 /\ policy_seq(c).val[b] = [t \in 1..N |-> raw[t][4].val[b]]
                 /\ action_seq(c).val[b] = [t \in 1..N |-> raw[t][5].val[b]]

C14_Witness ==
    \E c \in Calls :
        /\ Done(c)
        /\ args[c].session_length = 1
        /\ args[c].initial_env_state.tag = "explicit"
        /\ state_seq(c).val[1] = <<initial[c].env_state.val[1]>>
        /\ output[c][1][1].val[1] # initial[c].env_state.val[1]

\* ---- C15 ----------------------------------------------------------------
\* the batch extent of an initial value after the defaulting
InitialExtent(a, x) == IF x.tag = "zeros" THEN a.batch_size[1] ELSE Len(x.value.val)

\* a call of session_length >= 1 whose capabilities do not raise
NothingRaises(a) ==
    /\ a.session_length >= 1
    /\ a.fault = <<>>
    /\ ~(a.batch_size = <<>> /\ SomeZeros(a))
    /\ InitialExtent(a, a.initial_env_state) = InitialExtent(a, a.initial_hidden)
    /\ InitialExtent(a, a.initial_observation) = InitialExtent(a, a.initial_hidden)

\* the ticks run so far are ticks 0 .. i-1, each once; the loop is left only
\* after tick N-1
C15_ExactlyNTicks ==
    \A c \in Calls :
        LET N == args[c].session_length
        IN  /\ Len(output[c]) = i[c]
            /\ Len(transitions[c]) = i[c]
            /\ Len(reactions[c]) \in {i[c], i[c] + 1}
            /\ pc[c] = "env" => Len(reactions[c]) = i[c] + 1
            /\ pc[c] \in {"react", "stack", "stored", "returned"} => Len(reactions[c]) = i[c]
            /\ \A t \in 1..Len(transitions[c]) : transitions[c][t].time_tick = t - 1
            /\ N >= 1 => i[c] <= N
            /\ (N >= 1 /\ pc[c] \in {"stack", "stored", "returned"}) => i[c] = N
            /\ (Started(c) /\ NothingRaises(args[c])) => pc[c] # "raised"

\* C15: a call of session_length N >= 1 whose capabilities do not raise
\* terminates, having run exactly the ticks 0 .. N-1, each once, whatever the
\* values the capabilities produce.
C15_FixedUnroll ==
    /\ []C15_ExactlyNTicks
    /\ \A c \in Calls : (Started(c) /\ NothingRaises(args[c])) ~> Done(c)

C15_Witness ==
    \E c \in Calls :
        /\ Done(c)
        /\ args[c].session_length = MaxLen
        /\ args[c].environment.kind = "driven"
        /\ i[c] = MaxLen
        /\ hidden_seq(c).val[1][MaxLen] # hidden_seq(c).val[1][MaxLen - 1]

\* ---- C16 ----------------------------------------------------------------
\* C16: in a returned trajectory hidden_seq[b][t] is the hidden state returned
\* by the reaction of tick t, so that its first position is the reaction of
\* tick 0 and not the initial hidden state; policy_seq[b][t] and
\* action_seq[b][t] are the policy and the action computed by the reaction of
\* tick t; the initial environment state is state_seq[b][0] and the initial
\* observation is observation_seq[b][0].
C16_InitialValues ==
    \A c \in Calls : Done(c) =>
        LET N == args[c].session_length
        IN  /\ Len(reactions[c]) = N
            /\ \A b \in 1..Len(initial[c].hidden.val) :
                 /\ Len(hidden_seq(c).val[b]) = N
                 /\ Len(policy_seq(c).val[b]) = N
                 /\ \A t \in 1..N :
                      /\ hidden_seq(c).val[b][t] = reactions[c][t].out.hidden.val[b]
                      /\ policy_seq(c).val[b][t] = reactions[c][t].out.policy.val[b]
                 /\ hidden_seq(c).val[b][1] # initial[c].hidden.val[b]
                 /\ state_seq(c).val[b][1] = initial[c].env_state.val[b]
                 /\ observation_seq(c).val[b][1] = initial[c].observation.val[b]
            /\ Len(action_seq(c).val) = Len(initial[c].hidden.val)
            /\ \A b \in 1..Len(action_seq(c).val) :
                 /\ Len(action_seq(c).val[b]) = N
                 /\ \A t \in 1..N : action_seq(c).val[b][t] = reactions[c][t].out.action.val[b]

C16_Witness ==
    \E c \in Calls :
        /\ Done(c)
        /\ args[c].session_length >= 2
        /\ args[c].initial_hidden.tag = "explicit"
        /\ args[c].initial_observation.tag = "explicit"
        /\ hidden_seq(c).val[1][1] = reactions[c][1].out.hidden.val[1]
        /\ \A t \in 1..args[c].session_length :
             hidden_seq(c).val[1][t] # args[c].initial_hidden.value.val[1]
        /\ observation_seq(c).val[1][1] = args[c].initial_observation.value.val[1]

\* ---- C17 ----------------------------------------------------------------
\* a call of session_length < 1 never calls a capability, records nothing,
\* stores no history and returns nothing; where it ended it ended by raising
C17_NothingRun ==
    \A c \in Calls : (Started(c) /\ args[c].session_length < 1) =>
        /\ pc[c] \in {"stack", "raised"}
        /\ pc[c] = "raised" => error[c] \in {"IndexError", "TypeError"}
        /\ trace[c] = <<>>
        /\ reactions[c] = <<>>
        /\ transitions[c] = <<>>
        /\ output[c] = <<>>
        /\ result[c] = <<>>
        /\ "history" \notin DOMAIN self

\* C17: a call with session_length < 1 (zero or negative) fails: it raises,
\* returns no trajectory and calls neither the agent's reaction nor the
\* environment's step.
C17_InvalidLength ==
    /\ []C17_NothingRun
    /\ \A c \in Calls : (Started(c) /\ args[c].session_length < 1) ~> (pc[c] = "raised")

C17_Witness ==
    \E c \in Calls :
        /\ pc[c] = "raised"
        /\ args[c].session_length = 0 - 1
        /\ error[c] = "IndexError"
        /\ trace[c] = <<>>
        /\ result[c] = <<>>

\* ---- C19 ----------------------------------------------------------------
\* the arguments a with an environment that answers otherwise at tick k only
TwistedAt(a, k) == [a EXCEPT !.environment.twist = <<k>>]

\* C19: a returned call of session_length N called the environment's step at
\* tick N-1, last of all capability calls, and the same call with an
\* environment that differs only in what it returns at tick N-1 returns the
\* same trajectory: what the step of tick N-1 returns reaches no returned
\* sequence.
C19_LastStepUnseen ==
    \A c \in Calls : Done(c) =>
        LET N == args[c].session_length
            a == args[c]
            agent == MDPAgentInit("memory", "policy", "resolver", "default")
            last == transitions[c][N]
            other == get_action_results(TwistedAt(a, N - 1).environment,
                                        last.env_state, last.action, N - 1)
        IN  /\ trace[c][Len(trace[c])] = <<"step", N - 1>>
            /\ last.time_tick = N - 1
            /\ other.new_env_state # last.out.new_env_state
            /\ other.new_observation # last.out.new_observation
            /\ Alone(agent, a).result = result[c]
            /\ Alone(agent, TwistedAt(a, N - 1)).error = "none"
            /\ Alone(agent, TwistedAt(a, N - 1)).result = result[c]

C19_Witness ==
    \E c \in Calls :
        /\ Done(c)
        /\ args[c].session_length = 3
        /\ args[c].environment.kind = "driven"
        /\ Len(args[c].additional_output_layers) = 1
        /\ Alone(MDPAgentInit("memory", "policy", "resolver", "default"),
                 TwistedAt(args[c], 2)).result = result[c]
        /\ Alone(MDPAgentInit("memory", "policy", "resolver", "default"),
                 TwistedAt(args[c], 1)).result # result[c]

\* ---- C20 ----------------------------------------------------------------
\* the call has passed the assignment of self.history
Stored(c) == pc[c] \in {"stored", "returned"}

\* the last call that passed it, 0 when there is none
LastStored == IF Stored(2) THEN 2 ELSE IF Stored(1) THEN 1 ELSE 0

\* C20: self.history is assigned only after the whole unroll of a call: it
\* is unset until a call succeeds; after a successful call of session_length N
\* with k extras it is that call's raw record, 5 + k time-major sequences of
\* N ticks, unshifted (its state and observation at tick t are what the step
\* of tick t returned, and are the returned state_seq and observation_seq at
\* index t+1 for t < N-1); while a later call runs, and after it fails at
\* whatever tick, self.history is still the record of the last successful
\* call, or still unset.
C20_RetainedHistory ==
    /\ LastStored = 0 => "history" \notin DOMAIN self
    /\ \A c \in Calls : LastStored = c =>
          LET N == args[c].session_length
              h == self["history"]
          IN  /\ "history" \in DOMAIN self
              /\ h = OutputScan(output[c])
              /\ Len(h) = 5 + Len(args[c].additional_output_layers)
              /\ \A t \in 1..N :
                   /\ h[1].val[t] = transitions[c][t].out.new_env_state.val
                   /\ h[2].val[t] = transitions[c][t].out.new_observation.val
                   /\ h[3].val[t] = reactions[c][t].out.hidden.val
                   /\ h[4].val[t] = reactions[c][t].out.policy.val
                   /\ h[5].val[t] = reactions[c][t].out.action.val
              /\ Done(c) =>
                   \A t \in 1..(N - 1) : \A b \in 1..MaxBatch :
                       /\ h[1].val[t][b] = state_seq(c).val[b][t + 1]
                       /\ h[2].val[t][b] = observation_seq(c).val[b][t + 1]

C20_Witness ==
    /\ pc[1] = "returned"
    /\ pc[2] = "raised"
    /\ args[1].session_length = SeqLen
    /\ args[2].fault = <<"step", 1>>
    /\ Len(output[2]) = 1
    /\ self["history"] = OutputScan(output[1])
    /\ self["history"][1].val[1][1] = state_seq(1).val[1][2]
    /\ output[2][1] # output[1][1]

\* ---- C18 ----------------------------------------------------------------
\* the capability of the call breaks its contract at tick Fault[2]
Deviates(a) == a.fault # <<>> /\ a.fault[1] \in {"surplus", "short", "arity", "bare"}

\* C18: when a capability yields, at tick k, a result of another arity than
\* declared (the network one output more or fewer than asked for, the
\* environment other than two values), the call raises at tick k: it runs no
\* tick after k and does not reach its return; and whatever is returned has
\* 5 + (number of requested extras) sequences.
C18_ContractDetected ==
    \A c \in Calls :
        /\ (Started(c) /\ Deviates(args[c])) =>
              /\ i[c] <= args[c].fault[2]
              /\ pc[c] \in {"react", "env", "raised"}
        /\ Done(c) => Len(result[c]) = 5 + Len(args[c].additional_output_layers)

====
